---- MODULE Spec2Model ----
(***************************************************************************)
(* MultiGet command of mini-redis (src/cmd/multiget.rs): decoding a        *)
(* command from a received frame (parse_frames), executing it against the  *)
(* shared Db while other connections write (apply), and encoding it on the *)
(* client side (into_frame).                                               *)
(*                                                                         *)
(* Three specifications:                                                   *)
(*   Spec       one apply call running against a store that other          *)
(*              connections write concurrently;                            *)
(*   CodecSpec  into_frame / dispatcher / parse_frames on bounded inputs;  *)
(*   IsoSpec    the apply calls of two connections on one shared store.    *)
(***************************************************************************)
EXTENDS Integers, Sequences, FiniteSets, TLC

\* ---------------------------------------------------------------- bounds
MaxKeys   == 3      \* longest key list of a command
MaxWrites == 2      \* writes by other connections during one run
MaxFields == 3      \* fields of a received frame after the command name
MaxCount  == 4      \* largest key count declared on the wire
IsoKeys   == 1      \* longest key list when several connections run
IsoWrites == 1      \* writes by other commands when several connections run

\* ------------------------------------------------------- strings and bytes
\* A String is a sequence of code points, Bytes a sequence of octets.
\* Keys of the store: "a" and "e-acute" (2-byte UTF-8); a command may
\* also name the empty string.
Keys     == {<<97>>, <<233>>}
KeyNames == Keys \cup {<< >>}

\* String::into_bytes: the UTF-8 encoding of the string.
RECURSIVE into_bytes(_)
into_bytes(s) ==
    IF s = << >> THEN << >>
    ELSE LET c == Head(s)
             enc == IF c < 128 THEN <<c>>
                    ELSE <<192 + (c \div 64), 128 + (c % 64)>>
         IN enc \o into_bytes(Tail(s))

\* str::from_utf8 followed by to_string: [ok, s], s the decoded string.
RECURSIVE from_utf8(_)
from_utf8(b) ==
    IF b = << >> THEN [ok |-> TRUE, s |-> << >>]
    ELSE IF b[1] < 128 THEN
        LET rest == from_utf8(Tail(b))
        IN [ok |-> rest.ok, s |-> <<b[1]>> \o rest.s]
    ELSE IF b[1] >= 194 /\ b[1] < 224 /\ Len(b) >= 2
                        /\ b[2] >= 128 /\ b[2] < 192 THEN
        LET rest == from_utf8(Tail(Tail(b)))
        IN [ok |-> rest.ok,
            s |-> <<(b[1] - 192) * 64 + (b[2] - 128)>> \o rest.s]
    ELSE [ok |-> FALSE, s |-> << >>]

\* "multiget".as_bytes()
MultigetName == <<109, 117, 108, 116, 105, 103, 101, 116>>

\* ------------------------------------------------------------------ Frame
Bulk(b)    == [kind |-> "bulk", val |-> b]
Integer(n) == [kind |-> "int", val |-> n]
Null       == [kind |-> "null"]

FrameArray       == << >>
push_bulk(f, b)  == Append(f, Bulk(b))
push_int(f, n)   == Append(f, Integer(n))
push_null(f)     == Append(f, Null)

\* ------------------------------------------------------------------ Parse
\* The cursor: the fields of the received array and the index of the next
\* one.  A read yields [status, val, parse], parse being the cursor after it.
NewParse(fields) == [parts |-> fields, pos |-> 1]

next(p) ==
    IF p.pos > Len(p.parts)
    THEN [status |-> "EndOfStream", parse |-> p]
    ELSE [status |-> "Ok", val |-> p.parts[p.pos],
          parse |-> [p EXCEPT !.pos = p.pos + 1]]

next_int(p) ==
    LET r == next(p)
    IN IF r.status # "Ok" THEN r
       ELSE IF r.val.kind = "int"
            THEN [status |-> "Ok", val |-> r.val.val, parse |-> r.parse]
            ELSE [status |-> "WrongKind", parse |-> r.parse]

next_string(p) ==
    LET r == next(p)
    IN IF r.status # "Ok" THEN r
       ELSE IF r.val.kind = "bulk" /\ from_utf8(r.val.val).ok
            THEN [status |-> "Ok", val |-> from_utf8(r.val.val).s,
                  parse |-> r.parse]
            ELSE [status |-> "WrongKind", parse |-> r.parse]

\* --------------------------------------------------------------- MultiGet
new(ks) == [keys |-> ks]

\* The loop leaving at the end of the input with the keys read so far.
RECURSIVE parse_keys_partial(_, _, _, _)
parse_keys_partial(p, n, keys, reads) ==
    IF n = 0
    THEN [status |-> "Ok", cmd |-> new(keys), parse |-> p, reads |-> reads]
    ELSE LET r == next_string(p)
         IN IF r.status = "EndOfStream"
            THEN [status |-> "Ok", cmd |-> new(keys), parse |-> r.parse,
                  reads |-> reads + 1]
            ELSE IF r.status # "Ok"
            THEN [status |-> r.status, parse |-> r.parse, reads |-> reads + 1]
            ELSE parse_keys_partial(r.parse, n - 1, Append(keys, r.val),
                                    reads + 1)

\* The loop passing over a field that is not a string.
RECURSIVE parse_keys_skip(_, _, _, _)
parse_keys_skip(p, n, keys, reads) ==
    IF n = 0
    THEN [status |-> "Ok", cmd |-> new(keys), parse |-> p, reads |-> reads]
    ELSE LET r == next_string(p)
         IN IF r.status = "WrongKind"
            THEN parse_keys_skip(r.parse, n - 1, keys, reads + 1)
            ELSE IF r.status # "Ok"
            THEN [status |-> r.status, parse |-> r.parse, reads |-> reads + 1]
            ELSE parse_keys_skip(r.parse, n - 1, Append(keys, r.val),
                                 reads + 1)

\* The loop running all its n iterations once the cursor has failed.
RECURSIVE parse_keys_exhaust(_, _, _, _)
parse_keys_exhaust(p, n, keys, reads) ==
    IF n = 0
    THEN [status |-> "Ok", cmd |-> new(keys), parse |-> p, reads |-> reads]
    ELSE LET r == next_string(p)
         IN IF r.status # "Ok"
            THEN [status |-> r.status, parse |-> r.parse, reads |-> reads + n]
            ELSE parse_keys_exhaust(r.parse, n - 1, Append(keys, r.val),
                                    reads + 1)

\* The loop comparing the fields left with the count before it reads one.
RECURSIVE parse_keys_count_first(_, _, _, _)
parse_keys_count_first(p, n, keys, reads) ==
    IF n = 0
    THEN [status |-> "Ok", cmd |-> new(keys), parse |-> p, reads |-> reads]
    ELSE IF Len(p.parts) - p.pos + 1 < n
    THEN [status |-> "EndOfStream", parse |-> p, reads |-> reads]
    ELSE LET r == next_string(p)
         IN IF r.status # "Ok"
            THEN [status |-> r.status, parse |-> r.parse, reads |-> reads + 1]
            ELSE parse_keys_count_first(r.parse, n - 1, Append(keys, r.val),
                                        reads + 1)

\* The loop of parse_frames: n iterations left, keys read so far.
\* reads counts the calls of next_string.
RECURSIVE parse_keys(_, _, _, _)
parse_keys(p, n, keys, reads) ==
    IF n = 0
    THEN [status |-> "Ok", cmd |-> new(keys), parse |-> p, reads |-> reads]
    ELSE LET r == next_string(p)
         IN IF r.status # "Ok"
            THEN [status |-> r.status, parse |-> r.parse, reads |-> reads + 1]
            ELSE parse_keys(r.parse, n - 1, Append(keys, r.val), reads + 1)

\* parse_frames taking a count it cannot read as an integer for 0.
parse_frames_default_count(p) ==
    LET c == next_int(p)
    IN IF c.status = "WrongKind"
       THEN parse_keys(c.parse, 0, << >>, 0)
       ELSE IF c.status # "Ok"
       THEN [status |-> c.status, parse |-> c.parse, reads |-> 0]
       ELSE parse_keys(c.parse, c.val, << >>, 0)

\* parse_frames refusing a count of 0.
parse_frames_nonzero(p) ==
    LET c == next_int(p)
    IN IF c.status # "Ok"
       THEN [status |-> c.status, parse |-> c.parse, reads |-> 0]
       ELSE IF c.val = 0
       THEN [status |-> "WrongKind", parse |-> c.parse, reads |-> 0]
       ELSE parse_keys(c.parse, c.val, << >>, 0)

\* parse_frames refusing a frame with fields left after the last key.
parse_frames_finish(p) ==
    LET c == next_int(p)
    IN IF c.status # "Ok"
       THEN [status |-> c.status, parse |-> c.parse, reads |-> 0]
       ELSE LET r == parse_keys(c.parse, c.val, << >>, 0)
            IN IF r.status = "Ok" /\ r.parse.pos <= Len(r.parse.parts)
               THEN [status |-> "WrongKind", parse |-> r.parse,
                     reads |-> r.reads]
               ELSE r

parse_frames(p) ==
    LET c == next_int(p)
    IN IF c.status # "Ok"
       THEN [status |-> c.status, parse |-> c.parse, reads |-> 0]
       ELSE parse_keys(c.parse, c.val, << >>, 0)

\* The loop of into_frame pushing the keys last to first.
RECURSIVE push_keys_rev(_, _)
push_keys_rev(f, keys) ==
    IF keys = << >> THEN f
    ELSE push_keys_rev(push_bulk(f, into_bytes(keys[Len(keys)])),
                       SubSeq(keys, 1, Len(keys) - 1))

RECURSIVE push_keys(_, _)
push_keys(f, keys) ==
    IF keys = << >> THEN f
    ELSE push_keys(push_bulk(f, into_bytes(Head(keys))), Tail(keys))

\* into_frame without the key count.
into_frame_no_count(c) ==
    push_keys(push_bulk(FrameArray, MultigetName), c.keys)

into_frame(c) ==
    push_keys(push_int(push_bulk(FrameArray, MultigetName), Len(c.keys)),
              c.keys)

\* --------------------------------------------------------------------- Db
\* Option<Bytes>: None is the empty tuple, Some(v) the tuple holding v.
None    == << >>
Some(v) == <<v>>
Values  == {<<49>>, <<50>>}          \* the byte strings "1" and "2"
Entries == {None} \cup {Some(v) : v \in Values}

\* Db::get: the value stored under the key, None when there is none.
db_get(d, key) == IF key \in DOMAIN d THEN d[key] ELSE None

\* ------------------------------------------------------------------ state
VARIABLES
    db,         \* the shared store: Keys -> Option<Bytes>
    cmd,        \* the MultiGet being applied
    pc,         \* position of the apply call
    idx,        \* number of keys of cmd.keys already looked up
    response,   \* the response frame apply is building
    writes,     \* the calls of write_frame so far: [frame, outcome]
    peer,       \* the frames the peer has received
    result,     \* what apply returned: "none" while it has not returned
    hist,       \* every content the store has had so far
    extWrites,  \* number of writes by other connections so far
    looked,     \* the positions of cmd.keys passed to db.get, in call order
    origin,     \* codec: "client" (built with new) or "wire" (received)
    cphase,     \* codec: "new", "framed", "dispatched", "decoded"
    ckeys,      \* codec: the key list the client built its command from
    wire,       \* codec: the array frame, command name included
    parse,      \* codec: the cursor over wire
    decoded,    \* codec: what parse_frames returned
    conns       \* several connections: the apply call of each of them

applyVars == <<db, cmd, pc, idx, response, writes, peer, result, hist,
               extWrites, looked>>
codecVars == <<origin, cphase, ckeys, wire, parse, decoded>>
isoVars   == <<conns>>
vars      == <<applyVars, codecVars, isoVars>>

\* Sequences over S of length at most n.
SeqUpTo(S, n) == UNION {[1..k -> S] : k \in 0..n}

NoResult == [status |-> "none"]

ApplyIdle ==
    /\ db = [k \in Keys |-> None]
    /\ cmd = new(<< >>)
    /\ pc = "off"
    /\ idx = 0
    /\ response = FrameArray
    /\ writes = << >>
    /\ peer = << >>
    /\ result = "none"
    /\ hist = {db}
    /\ extWrites = 0
    /\ looked = << >>

CodecIdle ==
    /\ origin = "none"
    /\ cphase = "off"
    /\ ckeys = << >>
    /\ wire = << >>
    /\ parse = NewParse(<< >>)
    /\ decoded = NoResult

\* The connections served at the same time, each by its own task.
Conns == {"c1", "c2"}

\* One apply call on its connection, not yet started.
NewCall(ks) ==
    [cmd |-> new(ks), pc |-> "ready", idx |-> 0, response |-> FrameArray,
     writes |-> << >>, peer |-> << >>, result |-> "none"]

IsoIdle == conns = [c \in Conns |-> [NewCall(<< >>) EXCEPT !.pc = "off"]]

\* ------------------------------------------------------------- Connection
\* write_frame: what reaches the peer of one call, by the way it ends.  The
\* frame arrives whole when the call completes and not at all otherwise.
delivered(frame, outcome) == IF outcome = "ok" THEN <<frame>> ELSE << >>

\* ------------------------------------------------------------------ apply
\* push_entry leaving a missing key out of the response.
push_entry_skip_missing(resp, value) ==
    IF value # None THEN push_bulk(resp, value[1]) ELSE resp

\* push_entry putting the new entry in front of the response.
push_entry_front(resp, value) ==
    IF value # None THEN <<Bulk(value[1])>> \o resp ELSE <<Null>> \o resp

\* Lines 73-77: the entry pushed for one looked-up value.
push_entry(resp, value) ==
    IF value # None THEN push_bulk(resp, value[1]) ELSE push_null(resp)

\* Line 71: the call starts with an empty array.
ApplyCall ==
    /\ pc = "ready"
    /\ response' = FrameArray
    /\ idx' = 0
    /\ pc' = "lookup"
    /\ UNCHANGED <<db, cmd, writes, peer, result, hist, extWrites, looked>>

\* The loop writing each entry to the connection as it is found.
ApplyLookup_write_each ==
    /\ pc = "lookup"
    /\ idx < Len(cmd.keys)
    /\ response' = push_entry(response, db_get(db, cmd.keys[idx + 1]))
    /\ writes' = Append(writes, [frame |-> response', outcome |-> "ok"])
    /\ idx' = idx + 1
    /\ looked' = Append(looked, idx + 1)
    /\ UNCHANGED <<db, cmd, pc, peer, result, hist, extWrites>>

\* The whole loop as one step, as under a lock held across the lookups.
RECURSIVE push_all(_, _, _)
push_all(resp, d, keys) ==
    IF keys = << >> THEN resp
    ELSE push_all(push_entry(resp, db_get(d, Head(keys))), d, Tail(keys))

ApplyLookup_all ==
    /\ pc = "lookup"
    /\ idx < Len(cmd.keys)
    /\ response' = push_all(response, db, cmd.keys)
    /\ idx' = Len(cmd.keys)
    /\ looked' = [i \in 1..Len(cmd.keys) |-> i]
    /\ UNCHANGED <<db, cmd, pc, writes, peer, result, hist, extWrites>>

\* The loop taking each value out of the store as it reads it.
ApplyLookup_take ==
    /\ pc = "lookup"
    /\ idx < Len(cmd.keys)
    /\ response' = push_entry(response, db_get(db, cmd.keys[idx + 1]))
    /\ idx' = idx + 1
    /\ db' = [k \in Keys |-> IF k = cmd.keys[idx + 1] THEN None ELSE db[k]]
    /\ hist' = hist \cup {db'}
    /\ looked' = Append(looked, idx + 1)
    /\ UNCHANGED <<cmd, pc, writes, peer, result, extWrites>>

\* The loop sending each entry to the peer as it is found.
ApplyLookup_send_each ==
    /\ pc = "lookup"
    /\ idx < Len(cmd.keys)
    /\ response' = push_entry(response, db_get(db, cmd.keys[idx + 1]))
    /\ peer' = Append(peer, response')
    /\ idx' = idx + 1
    /\ looked' = Append(looked, idx + 1)
    /\ UNCHANGED <<db, cmd, pc, writes, result, hist, extWrites>>

\* The loop walking the key list from its end.
ApplyLookup_reverse ==
    /\ pc = "lookup"
    /\ idx < Len(cmd.keys)
    /\ response' = push_entry(response,
                              db_get(db, cmd.keys[Len(cmd.keys) - idx]))
    /\ idx' = idx + 1
    /\ looked' = Append(looked, Len(cmd.keys) - idx)
    /\ UNCHANGED <<db, cmd, pc, writes, peer, result, hist, extWrites>>

\* The loop answering a key it has met before from the response so far.
ApplyLookup_cached ==
    /\ pc = "lookup"
    /\ idx < Len(cmd.keys)
    /\ response' =
          IF \E i \in 1..idx : cmd.keys[i] = cmd.keys[idx + 1]
          THEN Append(response,
                      response[CHOOSE i \in 1..idx :
                                   cmd.keys[i] = cmd.keys[idx + 1]])
          ELSE push_entry(response, db_get(db, cmd.keys[idx + 1]))
    /\ idx' = idx + 1
    /\ looked' = Append(looked, idx + 1)
    /\ UNCHANGED <<db, cmd, pc, writes, peer, result, hist, extWrites>>

\* One iteration of the loop: one db.get and one push.
ApplyLookup ==
    /\ pc = "lookup"
    /\ idx < Len(cmd.keys)
    /\ response' = push_entry(response, db_get(db, cmd.keys[idx + 1]))
    /\ idx' = idx + 1
    /\ looked' = Append(looked, idx + 1)
    /\ UNCHANGED <<db, cmd, pc, writes, peer, result, hist, extWrites>>

\* Line 82: the loop is over, the response is handed to write_frame.
ApplyWriteFrame ==
    /\ pc = "lookup"
    /\ idx = Len(cmd.keys)
    /\ writes' = Append(writes, [frame |-> response, outcome |-> "pending"])
    /\ pc' = "writing"
    /\ UNCHANGED <<db, cmd, idx, response, peer, result, hist, extWrites,
                   looked>>

\* Lines 82-84: write_frame completed, apply returns Ok(()).
ApplyWriteOk ==
    /\ pc = "writing"
    /\ writes' = [writes EXCEPT ![Len(writes)].outcome = "ok"]
    /\ peer' = peer \o delivered(writes[Len(writes)].frame, "ok")
    /\ result' = "Ok"
    /\ pc' = "done"
    /\ UNCHANGED <<db, cmd, idx, response, hist, extWrites, looked>>

\* The failure of write_frame dropped: apply returns Ok(()).
ApplyWriteErr_swallow ==
    /\ pc = "writing"
    /\ writes' = [writes EXCEPT ![Len(writes)].outcome = "failed"]
    /\ peer' = peer \o delivered(writes[Len(writes)].frame, "failed")
    /\ result' = "Ok"
    /\ pc' = "done"
    /\ UNCHANGED <<db, cmd, idx, response, hist, extWrites, looked>>

\* Line 82: write_frame failed, `?` returns the error.
ApplyWriteErr ==
    /\ pc = "writing"
    /\ writes' = [writes EXCEPT ![Len(writes)].outcome = "failed"]
    /\ peer' = peer \o delivered(writes[Len(writes)].frame, "failed")
    /\ result' = "Err"
    /\ pc' = "done"
    /\ UNCHANGED <<db, cmd, idx, response, hist, extWrites, looked>>

\* Line 82: the future is dropped while it awaits write_frame.
ApplyCancel ==
    /\ pc = "writing"
    /\ peer' = peer \o delivered(writes[Len(writes)].frame, "cancelled")
    /\ pc' = "cancelled"
    /\ UNCHANGED <<db, cmd, idx, response, writes, result, hist, extWrites,
                   looked>>

\* A command of another connection sets one key.
DbSet ==
    /\ extWrites < MaxWrites
    /\ \E k \in Keys, v \in Values :
          /\ db' = [db EXCEPT ![k] = Some(v)]
          /\ hist' = hist \cup {db'}
    /\ extWrites' = extWrites + 1
    /\ UNCHANGED <<cmd, pc, idx, response, writes, peer, result, looked>>

Init ==
    /\ db \in [Keys -> Entries]
    /\ cmd \in {new(ks) : ks \in SeqUpTo(KeyNames, MaxKeys)}
    /\ pc = "ready"
    /\ idx = 0
    /\ response = FrameArray
    /\ writes = << >>
    /\ peer = << >>
    /\ result = "none"
    /\ hist = {db}
    /\ extWrites = 0
    /\ looked = << >>
    /\ CodecIdle
    /\ IsoIdle

Next ==
    \/ ApplyCall /\ UNCHANGED <<codecVars, isoVars>>
    \/ ApplyLookup /\ UNCHANGED <<codecVars, isoVars>>
    \/ ApplyWriteFrame /\ UNCHANGED <<codecVars, isoVars>>
    \/ ApplyWriteOk /\ UNCHANGED <<codecVars, isoVars>>
    \/ ApplyWriteErr /\ UNCHANGED <<codecVars, isoVars>>
    \/ ApplyCancel /\ UNCHANGED <<codecVars, isoVars>>
    \/ DbSet /\ UNCHANGED <<codecVars, isoVars>>

Spec == Init /\ [][Next]_vars

\* ------------------------------------------------------------------ codec
WireBytes  == {into_bytes(k) : k \in KeyNames} \cup {<<195>>}
WireFields == {Integer(n) : n \in 0..MaxCount}
                \cup {Bulk(b) : b \in WireBytes} \cup {Null}

\* The client turns its command into a frame.
Encode ==
    /\ cphase = "new"
    /\ wire' = into_frame(new(ckeys))
    /\ cphase' = "framed"
    /\ UNCHANGED <<origin, ckeys, parse, decoded>>

\* The dispatcher reads the command name off a cursor over the array and
\* hands the cursor to the command's parse_frames.
Dispatch ==
    /\ cphase = "framed"
    /\ LET name == next_string(NewParse(wire))
       IN /\ name.status = "Ok"
          /\ name.val = from_utf8(MultigetName).s
          /\ parse' = name.parse
    /\ cphase' = "dispatched"
    /\ UNCHANGED <<origin, ckeys, wire, decoded>>

Decode ==
    /\ cphase = "dispatched"
    /\ decoded' = parse_frames(parse)
    /\ parse' = decoded'.parse
    /\ cphase' = "decoded"
    /\ UNCHANGED <<origin, ckeys, wire>>

CodecInit ==
    /\ ApplyIdle
    /\ IsoIdle
    /\ parse = NewParse(<< >>)
    /\ decoded = NoResult
    /\ \/ /\ origin = "client"
          /\ cphase = "new"
          /\ ckeys \in SeqUpTo(KeyNames, MaxKeys)
          /\ wire = << >>
       \/ /\ origin = "wire"
          /\ cphase = "framed"
          /\ ckeys = << >>
          /\ wire \in {<<Bulk(MultigetName)>> \o f :
                           f \in SeqUpTo(WireFields, MaxFields)}

CodecNext ==
    \/ Encode /\ UNCHANGED <<applyVars, isoVars>>
    \/ Dispatch /\ UNCHANGED <<applyVars, isoVars>>
    \/ Decode /\ UNCHANGED <<applyVars, isoVars>>

CodecSpec == CodecInit /\ [][CodecNext]_vars

\* ---------------------------------------------------- several connections
\* apply on connection c, step by step as above, on the record of c; the
\* store is the one all connections share.
IsoCall(c) ==
    /\ conns[c].pc = "ready"
    /\ conns' = [conns EXCEPT ![c].response = FrameArray, ![c].idx = 0,
                              ![c].pc = "lookup"]
    /\ UNCHANGED <<db, hist, extWrites>>

\* The loop pushing onto one array that all the calls share.
IsoLookup_shared(c) ==
    /\ conns[c].pc = "lookup"
    /\ conns[c].idx < Len(conns[c].cmd.keys)
    /\ LET e == db_get(db, conns[c].cmd.keys[conns[c].idx + 1])
       IN conns' = [d \in Conns |->
                      IF d = c
                      THEN [conns[d] EXCEPT
                              !.response = push_entry(conns[d].response, e),
                              !.idx = conns[d].idx + 1]
                      ELSE IF conns[d].pc = "lookup"
                      THEN [conns[d] EXCEPT
                              !.response = push_entry(conns[d].response, e)]
                      ELSE conns[d]]
    /\ UNCHANGED <<db, hist, extWrites>>

IsoLookup(c) ==
    /\ conns[c].pc = "lookup"
    /\ conns[c].idx < Len(conns[c].cmd.keys)
    /\ conns' = [conns EXCEPT
          ![c].response =
              push_entry(conns[c].response,
                         db_get(db, conns[c].cmd.keys[conns[c].idx + 1])),
          ![c].idx = conns[c].idx + 1]
    /\ UNCHANGED <<db, hist, extWrites>>

IsoWriteFrame(c) ==
    /\ conns[c].pc = "lookup"
    /\ conns[c].idx = Len(conns[c].cmd.keys)
    /\ conns' = [conns EXCEPT
          ![c].writes = Append(conns[c].writes,
                               [frame |-> conns[c].response,
                                outcome |-> "pending"]),
          ![c].pc = "writing"]
    /\ UNCHANGED <<db, hist, extWrites>>

\* write_frame on connection c ends: completed, failed, or dropped.
IsoWriteEnd(c, outcome) ==
    /\ conns[c].pc = "writing"
    /\ LET n == Len(conns[c].writes)
       IN conns' = [conns EXCEPT
             ![c].writes = IF outcome = "cancelled" THEN conns[c].writes
                           ELSE [conns[c].writes EXCEPT ![n].outcome = outcome],
             ![c].peer = conns[c].peer
                           \o delivered(conns[c].writes[n].frame, outcome),
             ![c].result = IF outcome = "ok" THEN "Ok"
                           ELSE IF outcome = "failed" THEN "Err"
                           ELSE conns[c].result,
             ![c].pc = IF outcome = "cancelled" THEN "cancelled" ELSE "done"]
    /\ UNCHANGED <<db, hist, extWrites>>

IsoWriteOk(c)  == IsoWriteEnd(c, "ok")
IsoWriteErr(c) == IsoWriteEnd(c, "failed")
IsoCancel(c)   == IsoWriteEnd(c, "cancelled")

\* A command that is not a MultiGet sets one key.
IsoDbSet ==
    /\ extWrites < IsoWrites
    /\ \E k \in Keys, v \in Values :
          /\ db' = [db EXCEPT ![k] = Some(v)]
          /\ hist' = hist \cup {db'}
    /\ extWrites' = extWrites + 1
    /\ UNCHANGED conns

IsoInit ==
    /\ db \in [Keys -> Entries]
    /\ hist = {db}
    /\ extWrites = 0
    /\ cmd = new(<< >>)
    /\ pc = "off"
    /\ idx = 0
    /\ response = FrameArray
    /\ writes = << >>
    /\ peer = << >>
    /\ result = "none"
    /\ looked = << >>
    /\ CodecIdle
    /\ conns \in [Conns -> {NewCall(ks) : ks \in SeqUpTo(Keys, IsoKeys)}]

IsoFrame == <<cmd, pc, idx, response, writes, peer, result, looked, codecVars>>

IsoNext ==
    \/ \E c \in Conns : IsoCall(c) /\ UNCHANGED IsoFrame
    \/ \E c \in Conns : IsoLookup(c) /\ UNCHANGED IsoFrame
    \/ \E c \in Conns : IsoWriteFrame(c) /\ UNCHANGED IsoFrame
    \/ \E c \in Conns : IsoWriteOk(c) /\ UNCHANGED IsoFrame
    \/ \E c \in Conns : IsoWriteErr(c) /\ UNCHANGED IsoFrame
    \/ \E c \in Conns : IsoCancel(c) /\ UNCHANGED IsoFrame
    \/ IsoDbSet /\ UNCHANGED IsoFrame

IsoSpec == IsoInit /\ [][IsoNext]_vars

\* ----------------------------------------------------------------- claims
Decoded      == cphase = "decoded"
NoCommand    == "cmd" \notin DOMAIN decoded
IsString(f)  == f.kind = "bulk" /\ from_utf8(f.val).ok
\* The fields after the command name: wire[2] is the count, wire[2 + i]
\* the i-th key field.
HasCount     == Len(wire) >= 2
CountIsInt   == HasCount /\ wire[2].kind = "int"
Supplied     == Len(wire) - 2

C2_Length ==
    /\ \A i \in 1..Len(writes) : Len(writes[i].frame) = Len(cmd.keys)
    /\ \A i \in 1..Len(peer) : Len(peer[i]) = Len(cmd.keys)

\* A delivered response with a missing key, written while others wrote.
C2_Witness ==
    /\ pc = "done"
    /\ extWrites > 0
    /\ Len(cmd.keys) = 3
    /\ Len(peer) = 1
    /\ Len(peer[1]) = 3
    /\ \E i \in 1..3 : peer[1][i] = Null

\* What the response must hold for a key, given the store at the lookup.
EntryFor(d, key) ==
    IF key \in DOMAIN d /\ d[key] # None THEN Bulk(d[key][1]) ELSE Null

\* C3: the lookup of the key at index i appends, at index i, the bulk value
\* the store holds for that key at that moment, or null when it holds none;
\* entries already there stay, and the frame written is that response.
C3_Positional ==
    /\ [][idx' # idx =>
            /\ idx' = idx + 1
            /\ Len(response') = idx'
            /\ response'[idx'] = EntryFor(db, cmd.keys[idx'])
            /\ \A i \in 1..idx : response'[i] = response[i]]_vars
    /\ [](\A i \in 1..Len(writes) : writes[i].frame = response)

\* A response whose second entry differs from what the store held at the
\* start and holds now: the value was there only at its own lookup.
C3_Witness ==
    /\ pc = "done"
    /\ Len(cmd.keys) = 2
    /\ cmd.keys[1] = cmd.keys[2]
    /\ cmd.keys[1] \in Keys
    /\ response[1] = Null
    /\ response[2] = Bulk(<<49>>)
    /\ db[cmd.keys[1]] = Some(<<50>>)
    /\ peer = <<response>>

\* C4: apply calls write_frame exactly once, after the last lookup, with
\* the complete response; with no key it still writes one empty array.
C4_SingleWrite ==
    /\ Len(writes) <= 1
    /\ pc \in {"ready", "lookup"} => writes = << >>
    /\ pc \in {"writing", "done", "cancelled"} => Len(writes) = 1
    /\ \A i \in 1..Len(writes) :
          /\ idx = Len(cmd.keys)
          /\ writes[i].frame = response
    /\ \A i \in 1..Len(peer) : peer[i] = response

\* The zero-key call: one write of the empty array.
C4_Witness ==
    /\ pc = "done"
    /\ cmd.keys = << >>
    /\ Len(writes) = 1
    /\ writes[1].frame = FrameArray
    /\ peer = <<FrameArray>>

\* C5: apply holds no lock across its lookups: each of its steps performs
\* one lookup, and another connection can write between two lookups.
C5_NoSnapshot ==
    /\ [][idx' # idx => idx' = idx + 1 /\ Len(response') = Len(response) + 1]_vars
    /\ []((pc = "lookup" /\ extWrites < MaxWrites) => ENABLED DbSet)

\* A delivered response holding, for two different keys, values the store
\* never held together.
C5_Witness ==
    /\ pc = "done"
    /\ peer = <<response>>
    /\ \E i, j \in 1..Len(response) :
          /\ cmd.keys[i] \in Keys
          /\ cmd.keys[j] \in Keys
          /\ cmd.keys[i] # cmd.keys[j]
          /\ response[i] # Null
          /\ response[j] # Null
          /\ \A h \in hist : ~ /\ h[cmd.keys[i]] = Some(response[i].val)
                               /\ h[cmd.keys[j]] = Some(response[j].val)

\* C6: no step of apply changes the store, whether the write succeeds or
\* fails; while no other connection has written, the store is as it was.
C6_ReadOnly ==
    /\ [][<<pc, idx, response, writes, peer, result>>'
              # <<pc, idx, response, writes, peer, result>> => db' = db]_vars
    /\ [](extWrites = 0 => hist = {db})

\* A call with present keys whose write failed, the store untouched.
C6_Witness ==
    /\ pc = "done"
    /\ result = "Err"
    /\ extWrites = 0
    /\ Len(cmd.keys) >= 2
    /\ \A i \in 1..Len(response) : response[i] # Null
    /\ hist = {db}

Truncated == ~HasCount \/ (CountIsInt /\ Supplied < wire[2].val)

\* C8 as stated: fewer than N fields after the count N, or no count field,
\* always ends in exhausted-input.
C8_Original ==
    (Decoded /\ Truncated) =>
        /\ decoded.status = "EndOfStream"
        /\ NoCommand

\* C8 amended: the same when every field supplied after the count is a
\* string.
C8_Truncated ==
    (Decoded /\ Truncated /\ \A i \in 3..Len(wire) : IsString(wire[i])) =>
        /\ decoded.status = "EndOfStream"
        /\ NoCommand

\* N = 3 followed by two strings.
C8_Witness ==
    /\ Decoded
    /\ CountIsInt
    /\ wire[2].val = 3
    /\ Supplied = 2
    /\ IsString(wire[3])
    /\ IsString(wire[4])
    /\ decoded.status = "EndOfStream"
    /\ NoCommand

\* C9: with an integer count N, a field among the first N after it that is
\* present and not a string makes parse_frames fail with wrong-kind and
\* yield no command.
C9_KeyKind ==
    (/\ Decoded
     /\ CountIsInt
     /\ \E i \in 1..wire[2].val : i <= Supplied /\ ~IsString(wire[2 + i])) =>
        /\ decoded.status = "WrongKind"
        /\ NoCommand

\* A string key read, then a null in the place of the second key.
C9_Witness ==
    /\ Decoded
    /\ CountIsInt
    /\ wire[2].val = 2
    /\ Supplied = 2
    /\ IsString(wire[3])
    /\ wire[4] = Null
    /\ decoded.status = "WrongKind"
    /\ decoded.reads = 2
    /\ NoCommand

\* C10: apply returns Err exactly when its write failed and Ok exactly when
\* it succeeded, and a failed write is the only write it attempted.
C10_WriteFailure ==
    /\ \A i \in 1..Len(writes) :
          /\ writes[i].outcome = "failed" =>
                result = "Err" /\ pc = "done" /\ Len(writes) = 1
          /\ writes[i].outcome = "ok" => result = "Ok" /\ pc = "done"
    /\ result = "Ok" =>
          Len(writes) >= 1 /\ writes[Len(writes)].outcome = "ok"
    /\ result = "Err" =>
          Len(writes) >= 1 /\ writes[Len(writes)].outcome = "failed"

\* A failed write: one attempt, Err returned, nothing delivered.
C10_Witness ==
    /\ pc = "done"
    /\ result = "Err"
    /\ Len(writes) = 1
    /\ writes[1].outcome = "failed"
    /\ Len(cmd.keys) >= 1
    /\ peer = << >>

C13_EncodeShape ==
    (origin = "client" /\ cphase # "new") =>
        /\ Len(wire) = Len(ckeys) + 2
        /\ wire[1] = Bulk(MultigetName)
        /\ wire[2] = Integer(Len(ckeys))
        /\ wire[2].val = Len(wire) - 2
        /\ \A i \in 1..Len(ckeys) : wire[2 + i] = Bulk(into_bytes(ckeys[i]))

\* The frame of a list of three keys, two of them equal.
C13_Witness ==
    /\ origin = "client"
    /\ cphase = "framed"
    /\ ckeys = << <<97>>, <<233>>, <<97>> >>
    /\ wire = <<Bulk(MultigetName), Integer(3), Bulk(<<97>>),
                Bulk(<<195, 169>>), Bulk(<<97>>)>>

MinOf(a, b) == IF a < b THEN a ELSE b

\* C17: with count N and m fields behind it, parse_frames calls
\* next_string at most min(N, m + 1) times; when N > m and the m fields are
\* strings it fails with exhausted-input on the call after the m-th.
C17_BoundedReads ==
    (Decoded /\ CountIsInt) =>
        /\ decoded.reads <= MinOf(wire[2].val, Supplied + 1)
        /\ (wire[2].val > Supplied
              /\ \A i \in 3..Len(wire) : IsString(wire[i])) =>
              /\ decoded.status = "EndOfStream"
              /\ decoded.reads = Supplied + 1
              /\ parse.pos = Len(wire) + 1
              /\ NoCommand

\* The largest count against a single string field.
C17_Witness ==
    /\ Decoded
    /\ CountIsInt
    /\ wire[2].val = MaxCount
    /\ Supplied = 1
    /\ IsString(wire[3])
    /\ decoded.status = "EndOfStream"
    /\ decoded.reads = 2

\* The position of the first field after the count that is not a string.
FirstBad ==
    CHOOSE i \in 3..Len(wire) :
        /\ ~IsString(wire[i])
        /\ \A j \in 3..(i - 1) : IsString(wire[j])

\* What parse_frames returns on a cursor placed after the name of frame f.
StatusOn(f) == parse_frames([parts |-> f, pos |-> 2]).status

\* C18: a failing parse_frames stops at the first offending field and
\* reports that field's error alone: the fields up to it decide the result,
\* and a non-string field among fewer than N supplied gives wrong-kind.
C18_FirstError ==
    /\ (Decoded /\ decoded.status # "Ok") =>
          /\ decoded.status \in {"WrongKind", "EndOfStream"}
          /\ NoCommand
          /\ StatusOn(SubSeq(wire, 1, parse.pos - 1)) = decoded.status
          /\ decoded.status = "WrongKind" =>
                /\ parse.pos <= Len(wire) + 1
                /\ \A f \in WireFields :
                      StatusOn(Append(SubSeq(wire, 1, parse.pos - 1), f))
                          = "WrongKind"
          /\ decoded.status = "EndOfStream" => parse.pos = Len(wire) + 1
    /\ (/\ Decoded
        /\ CountIsInt
        /\ Supplied < wire[2].val
        /\ \E i \in 3..Len(wire) : ~IsString(wire[i])) =>
          /\ decoded.status = "WrongKind"
          /\ parse.pos = FirstBad + 1
          /\ decoded.reads = FirstBad - 2

\* Three keys declared, a string and a null supplied: wrong-kind at the
\* null.
C18_Witness ==
    /\ Decoded
    /\ CountIsInt
    /\ wire[2] = Integer(3)
    /\ Supplied = 2
    /\ IsString(wire[3])
    /\ wire[4] = Null
    /\ decoded.status = "WrongKind"
    /\ parse.pos = 5

\* C11: what the peer has received of one apply call is nothing or the
\* complete response, never a part of it; it is nothing while the write
\* has not completed, after a cancellation and after a failed write.
C11_AllOrNothing ==
    /\ Len(peer) <= 1
    /\ \A i \in 1..Len(peer) :
          /\ Len(peer[i]) = Len(cmd.keys)
          /\ peer[i] = response
          /\ pc = "done"
          /\ result = "Ok"
    /\ pc \in {"ready", "lookup", "writing", "cancelled"} => peer = << >>
    /\ result = "Err" => peer = << >>

\* A call of three keys cancelled while its write was pending.
C11_Witness ==
    /\ pc = "cancelled"
    /\ Len(cmd.keys) = 3
    /\ Len(response) = 3
    /\ Len(writes) = 1
    /\ writes[1].outcome = "pending"
    /\ peer = << >>

\* C15: the keys are passed to db.get in request order, each position
\* once, duplicates included, and all of them before write_frame is called.
C15_LookupOrder ==
    /\ Len(looked) = idx
    /\ Len(looked) <= Len(cmd.keys)
    /\ Len(response) = Len(looked)
    /\ \A i \in 1..Len(looked) : looked[i] = i
    /\ writes # << >> => Len(looked) = Len(cmd.keys)
    /\ pc \in {"writing", "done", "cancelled"} => Len(looked) = Len(cmd.keys)

\* The same key at positions 1 and 3, looked up twice with two results.
C15_Witness ==
    /\ pc = "done"
    /\ looked = <<1, 2, 3>>
    /\ cmd.keys[1] = cmd.keys[3]
    /\ cmd.keys[1] # cmd.keys[2]
    /\ response[1] # response[3]

\* Entry i of the response is what the store holds now for key i.
Matches(i) == response[i] = EntryFor(db, cmd.keys[i])

\* C19: an entry is, when it is pushed, what the store holds for its key,
\* and it stops being so only by a write of another connection to that
\* key; so with no write between the first and the last lookup the
\* response is the pointwise lookup in one store content.
C19_Quiescent ==
    [][/\ \A i \in 1..Len(response') :
             i > Len(response) => Matches(i)'
       /\ \A i \in 1..Len(response) :
             (i <= Len(response') /\ Matches(i) /\ ~Matches(i)') =>
                 /\ extWrites' = extWrites + 1
                 /\ cmd.keys[i] \in Keys
                 /\ db'[cmd.keys[i]] # db[cmd.keys[i]]
       /\ (extWrites' = extWrites /\ \A i \in 1..Len(response) : Matches(i))
             => \A i \in 1..Len(response') : Matches(i)']_vars

\* Store {a: 1, e-acute: 2}, keys [e-acute, a, e-acute], no write by
\* another connection: response [bulk 2, bulk 1, bulk 2].
C19_Witness ==
    /\ pc = "done"
    /\ extWrites = 0
    /\ cmd.keys = << <<233>>, <<97>>, <<233>> >>
    /\ db = [k \in Keys |-> IF k = <<97>> THEN Some(<<49>>) ELSE Some(<<50>>)]
    /\ response = <<Bulk(<<50>>), Bulk(<<49>>), Bulk(<<50>>)>>
    /\ peer = <<response>>
    /\ hist = {db}

\* C20: with several apply calls running at once, a step of one call
\* changes that call alone and pushes the entry for its own next key; a
\* connection receives at most one response, one when its call returns Ok,
\* and it is the response its own call built, one entry per key of its own
\* command.
C20_Isolation ==
    /\ [](\A c \in Conns :
             /\ Len(conns[c].peer) <= 1
             /\ Len(conns[c].response) = conns[c].idx
             /\ conns[c].idx <= Len(conns[c].cmd.keys)
             /\ conns[c].result = "Ok" <=> Len(conns[c].peer) = 1
             /\ \A i \in 1..Len(conns[c].peer) :
                   /\ conns[c].peer[i] = conns[c].response
                   /\ Len(conns[c].peer[i]) = Len(conns[c].cmd.keys)
             /\ \A i \in 1..Len(conns[c].writes) :
                   conns[c].writes[i].frame = conns[c].response)
    /\ [][\A c \in Conns :
             /\ conns'[c] # conns[c] =>
                   \A d \in Conns \ {c} : conns'[d] = conns[d]
             /\ conns'[c].cmd = conns[c].cmd
             /\ conns'[c].response # conns[c].response =>
                   conns'[c].response =
                       Append(conns[c].response,
                              EntryFor(db, conns[c].cmd.keys[conns[c].idx + 1]))
      ]_vars

\* Two calls on different keys holding different values, both delivered:
\* each peer holds the value of the key its own command named.
C20_Witness ==
    /\ conns["c1"].cmd.keys = << <<97>> >>
    /\ conns["c2"].cmd.keys = << <<233>> >>
    /\ conns["c1"].result = "Ok"
    /\ conns["c2"].result = "Ok"
    /\ conns["c1"].peer = << <<Bulk(<<49>>)>> >>
    /\ conns["c2"].peer = << <<Bulk(<<50>>)>> >>
    /\ extWrites = 1

====
